---- MODULE Spec2Model ----
(***************************************************************************)
(* Model of docs/register_scrnaseq_run.py: the registration of the inputs, *)
(* outputs and run metadata of an nf-core/scrnaseq run in the catalog.     *)
(*                                                                         *)
(* The script is one sequential procedure.  Every statement that touches   *)
(* the file system, the catalog or the in-memory Run is one action; pc is  *)
(* the statement the procedure is at.  An uncaught exception moves pc to   *)
(* "aborted" and records the statement and the exception.                  *)
(*                                                                         *)
(* Texts are sequences of symbols.  A symbol is a character or a literal   *)
(* of one of the script's regular expressions taken as a whole (such as    *)
(* "run id ["), so a text never holds a literal in part.                   *)
(***************************************************************************)
EXTENDS Naturals, Sequences, FiniteSets, TLC

\* ------------------------------------------------------------------ bounds

\* Largest number of files under the input directory.
NumInputFiles == 1
\* Longest run-id region of a report text, in symbols.
MaxIdLen == 4
\* Longest completion-timestamp region of a report text, in symbols.
MaxTsLen == 3

\* ------------------------------------------------------------- file system

None == "None"

\* The input directories: one of each number of files.
InputDirs == { { ToString(k) : k \in 1..n } : n \in 0..NumInputFiles }

MultiqcPath == "multiqc"
MatrixPath == "star/mtx_conversions/combined_filtered_matrix.h5ad"
OutputPaths == { MultiqcPath, MatrixPath }

HtmlReportName == "execution_report_1.html"
TextReportName == "execution_report.txt"
SoftwareName == "nf_core_scrnaseq_software_mqc_versions.yml"
ParamsName == "params_1.json"
PipelineInfoNames == { HtmlReportName, TextReportName, SoftwareName, ParamsName }

ReportGlob == "execution_report_*.html"
ParamsGlob == "params*"

\* The characters of a file name or of a glob pattern.
Spell(s) ==
  CASE s = "execution_report_1.html" ->
         <<"e","x","e","c","u","t","i","o","n","_","r","e","p","o","r","t","_","1",".","h","t","m","l">>
    [] s = "execution_report.txt" ->
         <<"e","x","e","c","u","t","i","o","n","_","r","e","p","o","r","t",".","t","x","t">>
    [] s = "nf_core_scrnaseq_software_mqc_versions.yml" ->
         <<"n","f","_","c","o","r","e","_","s","c","r","n","a","s","e","q","_","s","o","f","t","w","a","r","e","_","m","q","c","_","v","e","r","s","i","o","n","s",".","y","m","l">>
    [] s = "params_1.json" ->
         <<"p","a","r","a","m","s","_","1",".","j","s","o","n">>
    [] s = "execution_report_*.html" ->
         <<"e","x","e","c","u","t","i","o","n","_","r","e","p","o","r","t","_","*",".","h","t","m","l">>
    [] s = "execution_report*" ->
         <<"e","x","e","c","u","t","i","o","n","_","r","e","p","o","r","t","*">>
    [] s = "nf_core_*_software*" ->
         <<"n","f","_","c","o","r","e","_","*","_","s","o","f","t","w","a","r","e","*">>
    [] s = "params*" ->
         <<"p","a","r","a","m","s","*">>
    [] s = "execution-report*" ->
         <<"e","x","e","c","u","t","i","o","n","-","r","e","p","o","r","t","*">>

\* pathlib's matching of one path component: "*" stands for any run of
\* characters, every other pattern character for itself.
RECURSIVE GlobMatch(_, _)
GlobMatch(pat, name) ==
  IF pat = <<>> THEN name = <<>>
  ELSE IF Head(pat) = "*"
       THEN GlobMatch(Tail(pat), name)
            \/ (name # <<>> /\ GlobMatch(pat, Tail(name)))
       ELSE /\ name # <<>>
            /\ Head(name) = Head(pat)
            /\ GlobMatch(Tail(pat), Tail(name))

\* Path(f"{output_dir}/pipeline_info").glob(pattern)
Glob(dir, pattern) == { n \in dir : GlobMatch(Spell(pattern), Spell(n)) }

\* ------------------------------------------------------------ report text

RunIdOpen == "run id ["
SpanOpen == "<span id=\"workflow_complete\">"
SpanClose == "</span>"
Stamp == "01-Jan-2024 10:00:00"

IdAlphabet == { RunIdOpen, "a", "]" }
TsAlphabet == { SpanOpen, Stamp, SpanClose, " " }

BoundedSeq(S, n) == UNION { [1..k -> S] : k \in 0..n }

\* The report texts the model reads: every run-id region alone, and every
\* timestamp region after no run id and after a run id.
RunIdSample == << RunIdOpen, "a", "]" >>
ReportTexts ==
  BoundedSeq(IdAlphabet, MaxIdLen)
  \cup { i \o t : i \in { <<>>, RunIdSample }, t \in BoundedSeq(TsAlphabet, MaxTsLen) }

\* re.search(r"run id \[([^\]]+)\]", text) tried at position i: the group
\* takes the characters up to the next "]" and must take at least one.
RECURSIVE CloseFrom(_, _)
CloseFrom(text, j) ==
  IF j > Len(text) THEN 0
  ELSE IF text[j] = "]" THEN j
  ELSE CloseFrom(text, j + 1)

\* Mutant: the group takes exactly one character ("[^\]]" without "+").
RunIdMatchAt_OneChar(text, i) ==
  /\ text[i] = RunIdOpen
  /\ CloseFrom(text, i + 1) = i + 2

RunIdMatchAt(text, i) ==
  /\ text[i] = RunIdOpen
  /\ CloseFrom(text, i + 1) > i + 1

RECURSIVE RunIdSearchFrom(_, _)
RunIdSearchFrom(text, i) ==
  IF i > Len(text) THEN 0
  ELSE IF RunIdMatchAt(text, i) THEN i
  ELSE RunIdSearchFrom(text, i + 1)

\* match.group(1) if match else ""
RunIdOf(text) ==
  LET i == RunIdSearchFrom(text, 1)
  IN IF i = 0 THEN <<>>
     ELSE SubSeq(text, i + 1, CloseFrom(text, i + 1) - 1)

\* re.search(r'<span id="workflow_complete">([^<]+)</span>', text): the
\* group takes the characters up to the next "<" and must take at least one,
\* and "</span>" must follow it.
StartsWithLt(c) == c \in { SpanOpen, SpanClose }

RECURSIVE LtFrom(_, _)
LtFrom(text, j) ==
  IF j > Len(text) THEN 0
  ELSE IF StartsWithLt(text[j]) THEN j
  ELSE LtFrom(text, j + 1)

\* Mutant: the pattern ends at the opening tag.
SpanMatchAt_NoClose(text, i) == text[i] = SpanOpen

SpanMatchAt(text, i) ==
  /\ text[i] = SpanOpen
  /\ LtFrom(text, i + 1) > i + 1
  /\ text[LtFrom(text, i + 1)] = SpanClose

RECURSIVE SpanSearchFrom(_, _)
SpanSearchFrom(text, i) ==
  IF i > Len(text) THEN 0
  ELSE IF SpanMatchAt(text, i) THEN i
  ELSE SpanSearchFrom(text, i + 1)

\* completion_match.group(1)
SpanTextOf(text) ==
  LET i == SpanSearchFrom(text, 1)
  IN SubSeq(text, i + 1, LtFrom(text, i + 1) - 1)

\* str.strip()
RECURSIVE LStrip(_)
LStrip(s) == IF s # <<>> /\ Head(s) = " " THEN LStrip(Tail(s)) ELSE s

RECURSIVE RStrip(_)
RStrip(s) ==
  IF s # <<>> /\ s[Len(s)] = " " THEN RStrip(SubSeq(s, 1, Len(s) - 1)) ELSE s

Strip(s) == RStrip(LStrip(s))

\* datetime.strptime(s, "%d-%b-%Y %H:%M:%S"): the datetime, or ValueError.
StrptimeOk(s) == s = << Stamp >>
Strptime(s) == "datetime(2024, 1, 1, 10, 0, 0)"

\* ------------------------------------------------------------ params file

ParamsTexts == { << "{", "}" >>, << "{", "a", ":", "1", "}" >>, << "{", "a" >> }

\* json.load: the parsed dict (a set of key-value pairs), or JSONDecodeError.
JsonOk(t) ==
  \/ t = << "{", "}" >>
  \/ Len(t) = 5 /\ t[1] = "{" /\ t[3] = ":" /\ t[5] = "}"
JsonLoad(t) == IF Len(t) = 5 THEN { << t[2], t[4] >> } ELSE {}

\* ------------------------------------------------------------------ state

VARIABLES
  pc,               \* the statement the procedure is at
  failure,          \* the uncaught exception, once aborted
  fs,               \* the input and output trees (they do not change)
  input_artifacts,  \* register_pipeline_io's local
  content,          \* register_pipeline_metadata's locals
  nextflow_id,
  loop_i,
  params_path,
  params_text,
  params,
  run,              \* the Run object in memory
  db,               \* the records the catalog holds
  warnings,         \* logger.warning's output
  log               \* the statements executed so far

vars == << pc, failure, fs, input_artifacts, content, nextflow_id, loop_i,
           params_path, params_text, params, run, db, warnings, log >>

locals == << input_artifacts, content, nextflow_id, loop_i, params_path, params_text,
            params >>

\* An optional value: None, or the value.
Unset == {}
Some(v) == { v }

InputPath(n) == << "input", n >>
OutputPath(p) == << "output", p >>
InfoPath(n) == << "output/pipeline_info", n >>

\* ln.Artifact(path, key=, description=, visibility=, run=)
Artifact(path, key, text, of, visibility, r) ==
  [ path |-> path, key |-> key, description |-> [ text |-> text, of |-> of ],
    visibility |-> visibility, run |-> r ]

\* ln.Transform(key=..., version=..., type=..., reference=...)
ScrnaseqTransform ==
  [ key |-> "scrna-seq", version |-> "4.0.0", type |-> "pipeline",
    reference |-> "https://github.com/nf-core/scrnaseq" ]

\* ln.Run(transform=scrnaseq_transform)
NewRun ==
  [ reference |-> Unset, reference_type |-> Unset, finished_at |-> Unset,
    report |-> Unset, environment |-> Unset ]

EmptyDb ==
  [ transforms |-> {}, transform_ulabels |-> {}, ulabels |-> {}, runs |-> {},
    run_inputs |-> {}, artifacts |-> {}, params |-> {}, run_params |-> {} ]

Event(step, arg) == [ step |-> step, arg |-> arg ]

Init ==
  /\ pc = "transform_save"
  /\ failure = Unset
  /\ fs \in [ inputs : InputDirs,
              output : SUBSET OutputPaths,
              pinfo : SUBSET PipelineInfoNames ]
  /\ input_artifacts = {}
  /\ content = <<>>
  /\ nextflow_id = <<>>
  /\ loop_i = 1
  /\ params_path = Unset
  /\ params_text = Unset
  /\ params = {}
  /\ run = NewRun
  /\ db = EmptyDb
  /\ warnings = <<>>
  /\ log = <<>>

\* The statement at `step` ran; the procedure goes on at `next`.
Goto(step, arg, next) ==
  /\ pc' = next
  /\ log' = Append(log, Event(step, arg))
  /\ UNCHANGED << failure, fs >>

\* Mutant: the exception undoes what the catalog holds.
Raise_Rollback(step, exc) ==
  /\ pc' = "aborted"
  /\ failure' = Some([ at |-> step, exc |-> exc ])
  /\ db' = EmptyDb
  /\ UNCHANGED << fs, locals, run, warnings, log >>

\* The statement at `step` raised `exc`, which nothing catches.
Raise(step, exc) ==
  /\ pc' = "aborted"
  /\ failure' = Some([ at |-> step, exc |-> exc ])
  /\ UNCHANGED << fs, locals, run, db, warnings, log >>

\* ------------------------------------------------------------ main, 76-83

\* scrnaseq_transform = ln.Transform(...).save()
TransformSave ==
  /\ pc = "transform_save"
  /\ db' = [ db EXCEPT !.transforms = @ \cup { ScrnaseqTransform } ]
  /\ Goto("transform_save", "", "run_create")
  /\ UNCHANGED << locals, run, warnings >>

\* Mutant: register_pipeline_metadata is called before register_pipeline_io.
RunCreate_MetadataFirst ==
  /\ pc = "run_create"
  /\ run' = NewRun
  /\ db' = [ db EXCEPT !.runs = { NewRun } ]
  /\ Goto("run_create", "", "meta_ulabel")
  /\ UNCHANGED << locals, warnings >>

\* run = ln.Run(transform=scrnaseq_transform).save()
RunCreate ==
  /\ pc = "run_create"
  /\ run' = NewRun
  /\ db' = [ db EXCEPT !.runs = { NewRun } ]
  /\ Goto("run_create", "", "io_from_dir")
  /\ UNCHANGED << locals, warnings >>

\* --------------------------------------------------- register_pipeline_io

\* Mutant: from_dir without run=False.
FromDir_TiedToRun(dir) ==
  { Artifact(InputPath(n), n, None, <<>>, 1, "run") : n \in dir }

\* input_artifacts = ln.Artifact.from_dir(input_dir, run=False)
FromDir(dir) ==
  { Artifact(InputPath(n), n, None, <<>>, 1, None) : n \in dir }

IoFromDir ==
  /\ pc = "io_from_dir"
  /\ input_artifacts' = FromDir(fs.inputs)
  /\ Goto("io_from_dir", "", "io_save_inputs")
  /\ UNCHANGED << content, nextflow_id, loop_i, params_path, params_text, params,
                  run, db, warnings >>

\* ln.save(input_artifacts)
IoSaveInputs ==
  /\ pc = "io_save_inputs"
  /\ db' = [ db EXCEPT !.artifacts = @ \cup input_artifacts ]
  /\ Goto("io_save_inputs", "", "io_set_inputs")
  /\ UNCHANGED << locals, run, warnings >>

\* run.input_artifacts.set(input_artifacts)
IoSetInputs ==
  /\ pc = "io_set_inputs"
  /\ db' = [ db EXCEPT !.run_inputs = input_artifacts ]
  /\ Goto("io_set_inputs", "", "io_multiqc")
  /\ UNCHANGED << locals, run, warnings >>

\* ln.Artifact(f"{output_dir}/multiqc", description="multiqc report", run=run)
MultiqcArtifact ==
  Artifact(OutputPath(MultiqcPath), None, "multiqc report", <<>>, 1, "run")

\* ln.Artifact(f"{output_dir}/star/mtx_conversions/combined_filtered_matrix.h5ad",
\*             key="filtered_count_matrix.h5ad", run=run)
MatrixArtifact ==
  Artifact(OutputPath(MatrixPath), "filtered_count_matrix.h5ad", None, <<>>, 1, "run")

\* ln.Artifact(path, ...).save() of a path under the output directory: the
\* client raises FileNotFoundError for a path that does not exist.
IoOutput(step, path, artifact, next) ==
  /\ pc = step
  /\ \/ /\ path \in fs.output
        /\ db' = [ db EXCEPT !.artifacts = @ \cup { artifact } ]
        /\ Goto(step, "", next)
        /\ UNCHANGED << locals, run, warnings >>
     \/ /\ path \notin fs.output
        /\ Raise(step, "FileNotFoundError")

IoMultiqc == IoOutput("io_multiqc", MultiqcPath, MultiqcArtifact, "io_matrix")

IoMatrix == IoOutput("io_matrix", MatrixPath, MatrixArtifact, "meta_ulabel")

\* --------------------------------------------- register_pipeline_metadata

\* ulabel = ln.ULabel(name="nextflow").save()
\* run.transform.ulabels.add(ulabel)
MetaULabel ==
  /\ pc = "meta_ulabel"
  /\ db' = [ db EXCEPT !.ulabels = @ \cup { "nextflow" },
                        !.transform_ulabels = @ \cup { "nextflow" } ]
  /\ Goto("meta_ulabel", "", "meta_read_report")
  /\ UNCHANGED << locals, run, warnings >>

\* content = next(Path(...).glob("execution_report_*.html")).read_text()
\* next() raises StopIteration when nothing matches.  The text is whatever
\* the file holds.
MetaReadReport ==
  /\ pc = "meta_read_report"
  /\ \/ /\ Glob(fs.pinfo, ReportGlob) # {}
        /\ \E f \in Glob(fs.pinfo, ReportGlob) : \E text \in ReportTexts :
             content' = text
        /\ Goto("meta_read_report", "", "meta_run_id")
        /\ UNCHANGED << input_artifacts, nextflow_id, loop_i, params_path, params_text,
                        params, run, db, warnings >>
     \/ /\ Glob(fs.pinfo, ReportGlob) = {}
        /\ Raise("meta_read_report", "StopIteration")

\* match = re.search(r"run id \[([^\]]+)\]", content)
\* nextflow_id = match.group(1) if match else ""
\* run.reference = nextflow_id
\* run.reference_type = "nextflow_id"
MetaRunId ==
  /\ pc = "meta_run_id"
  /\ nextflow_id' = RunIdOf(content)
  /\ run' = [ run EXCEPT !.reference = Some(RunIdOf(content)),
                         !.reference_type = Some("nextflow_id") ]
  /\ Goto("meta_run_id", "", "meta_completed_at")
  /\ UNCHANGED << input_artifacts, content, loop_i, params_path, params_text, params, db,
                  warnings >>

\* completion_match = re.search(r'<span id="workflow_complete">([^<]+)</span>', content)
\* if completion_match:
\*     timestamp_str = completion_match.group(1).strip()
\*     run.finished_at = datetime.strptime(timestamp_str, "%d-%b-%Y %H:%M:%S")
MetaCompletedAt ==
  /\ pc = "meta_completed_at"
  /\ \/ /\ SpanSearchFrom(content, 1) = 0
        /\ Goto("meta_completed_at", "no match", "meta_loop")
        /\ UNCHANGED << locals, run, db, warnings >>
     \/ /\ SpanSearchFrom(content, 1) # 0
        /\ StrptimeOk(Strip(SpanTextOf(content)))
        /\ run' = [ run EXCEPT !.finished_at = Some(Strptime(Strip(SpanTextOf(content)))) ]
        /\ Goto("meta_completed_at", "finished_at", "meta_loop")
        /\ UNCHANGED << locals, db, warnings >>
     \/ /\ SpanSearchFrom(content, 1) # 0
        /\ ~StrptimeOk(Strip(SpanTextOf(content)))
        /\ Raise("meta_completed_at", "ValueError")

\* Mutant: a misspelt pattern.
LoopItems_Typo ==
  << [ file_pattern |-> "execution-report*", description |-> "execution report",
       run_attr |-> "report" ],
     [ file_pattern |-> "nf_core_*_software*", description |-> "software versions",
       run_attr |-> "environment" ] >>

\* for file_pattern, description, run_attr in [...]
LoopItems ==
  << [ file_pattern |-> "execution_report*", description |-> "execution report",
       run_attr |-> "report" ],
     [ file_pattern |-> "nf_core_*_software*", description |-> "software versions",
       run_attr |-> "environment" ] >>

\* Mutant: matching_files[0] is taken without the guard.
MetaLoop_RaiseOnNoMatch ==
  /\ pc = "meta_loop"
  /\ LET item == LoopItems[loop_i]
         matching_files == Glob(fs.pinfo, item.file_pattern)
         next == IF loop_i = Len(LoopItems) THEN "meta_params_glob" ELSE "meta_loop"
     IN \/ /\ matching_files = {}
           /\ Raise("meta_loop", "IndexError")
        \/ /\ matching_files # {}
           /\ \E f \in matching_files :
                LET artifact == Artifact(InfoPath(f), None, item.description,
                                         nextflow_id, 0, None)
                IN /\ db' = [ db EXCEPT !.artifacts = @ \cup { artifact } ]
                   /\ run' = [ run EXCEPT ![item.run_attr] = Some(artifact) ]
           /\ loop_i' = loop_i + 1
           /\ Goto("meta_loop", item.run_attr, next)
           /\ UNCHANGED << input_artifacts, content, nextflow_id, params_path, params_text,
                           params, warnings >>

\* One iteration of the loop: no match logs a warning and continues; a match,
\* the first in the order the directory happens to list, is saved as an
\* Artifact and set on the Run.
MetaLoop ==
  /\ pc = "meta_loop"
  /\ LET item == LoopItems[loop_i]
         matching_files == Glob(fs.pinfo, item.file_pattern)
         next == IF loop_i = Len(LoopItems) THEN "meta_params_glob" ELSE "meta_loop"
     IN \/ /\ matching_files = {}
           /\ warnings' = Append(warnings, << "No files matching", item.file_pattern >>)
           /\ loop_i' = loop_i + 1
           /\ Goto("meta_loop", "warning", next)
           /\ UNCHANGED << input_artifacts, content, nextflow_id, params_path, params_text,
                           params, run, db >>
        \/ /\ matching_files # {}
           /\ \E f \in matching_files :
                LET artifact == Artifact(InfoPath(f), None, item.description,
                                         nextflow_id, 0, None)
                IN /\ db' = [ db EXCEPT !.artifacts = @ \cup { artifact } ]
                   /\ run' = [ run EXCEPT ![item.run_attr] = Some(artifact) ]
           /\ loop_i' = loop_i + 1
           /\ Goto("meta_loop", item.run_attr, next)
           /\ UNCHANGED << input_artifacts, content, nextflow_id, params_path, params_text,
                           params, warnings >>

\* Mutant: no match leaves the parameters empty instead of raising.
MetaParamsGlob_Default ==
  /\ pc = "meta_params_glob"
  /\ \/ /\ Glob(fs.pinfo, ParamsGlob) # {}
        /\ \E f \in Glob(fs.pinfo, ParamsGlob) : params_path' = Some(f)
        /\ Goto("meta_params_glob", "", "meta_params_open")
        /\ UNCHANGED << input_artifacts, content, nextflow_id, loop_i, params_text,
                        params, run, db, warnings >>
     \/ /\ Glob(fs.pinfo, ParamsGlob) = {}
        /\ Goto("meta_params_glob", "default", "meta_param_save")
        /\ UNCHANGED << locals, run, db, warnings >>

\* params_path = next(Path(...).glob("params*"))
MetaParamsGlob ==
  /\ pc = "meta_params_glob"
  /\ \/ /\ Glob(fs.pinfo, ParamsGlob) # {}
        /\ \E f \in Glob(fs.pinfo, ParamsGlob) : params_path' = Some(f)
        /\ Goto("meta_params_glob", "", "meta_params_open")
        /\ UNCHANGED << input_artifacts, content, nextflow_id, loop_i, params_text,
                        params, run, db, warnings >>
     \/ /\ Glob(fs.pinfo, ParamsGlob) = {}
        /\ Raise("meta_params_glob", "StopIteration")

\* with params_path.open() as params_file:
\* The text is whatever the file holds.
MetaParamsOpen ==
  /\ pc = "meta_params_open"
  /\ \E text \in ParamsTexts : params_text' = Some(text)
  /\ Goto("meta_params_open", "", "meta_params_load")
  /\ UNCHANGED << input_artifacts, content, nextflow_id, loop_i, params_path, params,
                  run, db, warnings >>

\*     params = json.load(params_file)
MetaParamsLoad ==
  /\ pc = "meta_params_load"
  /\ \E text \in params_text :
       \/ /\ JsonOk(text)
          /\ params' = JsonLoad(text)
          /\ Goto("meta_params_load", "", "meta_param_save")
          /\ UNCHANGED << input_artifacts, content, nextflow_id, loop_i, params_path,
                          params_text, run, db, warnings >>
       \/ /\ ~JsonOk(text)
          /\ Raise("meta_params_load", "JSONDecodeError")

\* ln.Param(name="params", dtype="dict").save()
MetaParamSave ==
  /\ pc = "meta_param_save"
  /\ db' = [ db EXCEPT !.params = @ \cup { [ name |-> "params", dtype |-> "dict" ] } ]
  /\ Goto("meta_param_save", "", "meta_add_values")
  /\ UNCHANGED << locals, run, warnings >>

\* run.params.add_values({"params": params})
MetaAddValues ==
  /\ pc = "meta_add_values"
  /\ db' = [ db EXCEPT !.run_params = @ \cup { [ name |-> "params", value |-> params ] } ]
  /\ Goto("meta_add_values", "", "meta_run_save")
  /\ UNCHANGED << locals, run, warnings >>

\* Mutant: the final run.save() is missing.
MetaRunSave_NoPersist ==
  /\ pc = "meta_run_save"
  /\ Goto("meta_run_save", "", "done")
  /\ UNCHANGED << locals, run, db, warnings >>

\* run.save()
MetaRunSave ==
  /\ pc = "meta_run_save"
  /\ db' = [ db EXCEPT !.runs = { run } ]
  /\ Goto("meta_run_save", "", "done")
  /\ UNCHANGED << locals, run, warnings >>

\* ------------------------------------------------------------ the program

Next ==
  \/ TransformSave
  \/ RunCreate
  \/ IoFromDir
  \/ IoSaveInputs
  \/ IoSetInputs
  \/ IoMultiqc
  \/ IoMatrix
  \/ MetaULabel
  \/ MetaReadReport
  \/ MetaRunId
  \/ MetaCompletedAt
  \/ MetaLoop
  \/ MetaParamsGlob
  \/ MetaParamsOpen
  \/ MetaParamsLoad
  \/ MetaParamSave
  \/ MetaAddValues
  \/ MetaRunSave

Spec == Init /\ [][Next]_vars

\* ------------------------------------------------------------- properties

Terminated == pc \in { "done", "aborted" }

\* The statement `step` has been executed (without raising).
Executed(step) == \E i \in 1..Len(log) : log[i].step = step

AbortedAt(step) == pc = "aborted" /\ \E f \in failure : f.at = step

MandatoryFilesPresent ==
  /\ fs.output = OutputPaths
  /\ HtmlReportName \in fs.pinfo
  /\ ParamsName \in fs.pinfo

\* text[i..j] is 'run id [<token>]' with a non-empty token free of "]".
RunIdOccurrence(text, i, j) ==
  /\ text[i] = RunIdOpen
  /\ text[j] = "]"
  /\ j > i + 1
  /\ \A k \in (i + 1)..(j - 1) : text[k] # "]"

HasRunId(text) ==
  \E i, j \in 1..Len(text) : RunIdOccurrence(text, i, j)

\* text[i..j] is a workflow_complete span with a non-empty text free of "<".
SpanOccurrence(text, i, j) ==
  /\ text[i] = SpanOpen
  /\ text[j] = SpanClose
  /\ j > i + 1
  /\ \A k \in (i + 1)..(j - 1) : text[k] \notin { SpanOpen, SpanClose }

\* The span's text is a timestamp of the fixed format, blanks around it aside.
WellFormedSpan(text, i, j) ==
  \E k \in (i + 1)..(j - 1) :
    /\ text[k] = Stamp
    /\ \A m \in ((i + 1)..(j - 1)) \ { k } : text[m] = " "

\* The report of a completed pipeline run: it names the run id, and its first
\* workflow_complete span holds a well-formed timestamp.
ValidReport(text) ==
  /\ HasRunId(text)
  /\ \E i, j \in 1..Len(text) :
       /\ SpanOccurrence(text, i, j)
       /\ WellFormedSpan(text, i, j)
       /\ \A i2, j2 \in 1..Len(text) : SpanOccurrence(text, i2, j2) => i2 >= i

ValidParamsText(t) == t \in { << "{", "}" >>, << "{", "a", ":", "1", "}" >> }

\* C1: for a valid output tree with every expected file present, the
\* procedure never aborts, can always take its next step until it is done,
\* and when it is done the persisted Run has a non-empty reference id, a set
\* finish timestamp, and both the report and the environment attachment.
C1_ValidTreePersistsCompleteRun ==
  ( /\ MandatoryFilesPresent
    /\ SoftwareName \in fs.pinfo
    /\ Executed("meta_read_report")
    /\ ValidReport(content)
    /\ \A t \in params_text : ValidParamsText(t) )
  => /\ pc # "aborted"
     /\ pc # "done" => ENABLED Next
     /\ pc = "done" =>
          /\ Executed("meta_run_save")
          /\ db.runs = { run }
          /\ \A r \in db.runs :
               /\ r.reference \notin { Unset, Some(<<>>) }
               /\ r.finished_at # Unset
               /\ r.report # Unset
               /\ r.environment # Unset

C1_Witness ==
  /\ MandatoryFilesPresent
  /\ SoftwareName \in fs.pinfo
  /\ ValidReport(content)
  /\ pc = "done"
  /\ \E r \in db.runs :
       /\ r.reference = Some(<< "a" >>)
       /\ r.finished_at # Unset
       /\ r.report # Unset
       /\ r.environment # Unset

\* C2: with no software-versions file (and the mandatory files present) the
\* environment slot stays unset and no software-versions Artifact exists;
\* once the loop is over a warning names the pattern; the loop never raises,
\* no lookup raises, and a finished run is persisted without an environment.
C2_MissingSoftwareIsSkipped ==
  ( MandatoryFilesPresent /\ SoftwareName \notin fs.pinfo )
  => /\ run.environment = Unset
     /\ \A a \in db.artifacts : a.description.text # "software versions"
     /\ loop_i > Len(LoopItems) =>
          /\ \E i \in 1..Len(warnings) :
               warnings[i] = << "No files matching", "nf_core_*_software*" >>
          /\ pc \in { "meta_params_glob", "meta_params_open", "meta_params_load",
                      "meta_param_save", "meta_add_values", "meta_run_save",
                      "done", "aborted" }
          /\ pc = "aborted" => AbortedAt("meta_params_load")
     /\ pc = "aborted" =>
          \E f \in failure : f.exc \in { "ValueError", "JSONDecodeError" }
     /\ pc = "done" =>
          /\ Executed("meta_run_save")
          /\ \A r \in db.runs : r.environment = Unset

C2_Witness ==
  /\ MandatoryFilesPresent
  /\ SoftwareName \notin fs.pinfo
  /\ pc = "done"
  /\ warnings = << << "No files matching", "nf_core_*_software*" >> >>
  /\ \A r \in db.runs : r.environment = Unset /\ r.report # Unset

\* The text holds no workflow_complete span at all.
NoSpan(text) ==
  ~ \E i, j \in 1..Len(text) : i < j /\ text[i] = SpanOpen /\ text[j] = SpanClose

\* C3: when the report read holds no workflow_complete span, finished_at is
\* never assigned (in memory or in the catalog), the timestamp step does not
\* raise, and only the params steps can still stop the procedure.
C3_NoSpanLeavesFinishedAtUnset ==
  ( Executed("meta_read_report") /\ NoSpan(content) )
  => /\ run.finished_at = Unset
     /\ \A r \in db.runs : r.finished_at = Unset
     /\ ~AbortedAt("meta_completed_at")
     /\ pc = "aborted" =>
          AbortedAt("meta_params_glob") \/ AbortedAt("meta_params_load")

C3_Witness ==
  /\ Executed("meta_read_report")
  /\ NoSpan(content)
  /\ content # <<>>
  /\ pc = "done"
  /\ db.runs = { run }
  /\ run.finished_at = Unset

\* The first workflow_complete span of the text holds a text that is no
\* timestamp of the fixed format.
MalformedSpan(text) ==
  \E i, j \in 1..Len(text) :
    /\ SpanOccurrence(text, i, j)
    /\ ~WellFormedSpan(text, i, j)
    /\ \A i2, j2 \in 1..Len(text) : SpanOccurrence(text, i2, j2) => i2 >= i

\* C4: when the report's workflow_complete span holds a malformed text, the
\* timestamp is treated as absent: finished_at stays unset and the timestamp
\* step does not raise.
C4_MalformedSpanTreatedAsAbsent ==
  ( Executed("meta_read_report") /\ MalformedSpan(content) )
  => /\ run.finished_at = Unset
     /\ ~AbortedAt("meta_completed_at")

\* The statements in program order.
Steps ==
  << "transform_save", "run_create",
     "io_from_dir", "io_save_inputs", "io_set_inputs", "io_multiqc", "io_matrix",
     "meta_ulabel", "meta_read_report", "meta_run_id", "meta_completed_at",
     "meta_loop", "meta_params_glob", "meta_params_open", "meta_params_load",
     "meta_param_save", "meta_add_values", "meta_run_save" >>

StepIndex(step) == CHOOSE i \in 1..Len(Steps) : Steps[i] = step

\* The four mandatory files: whether each is absent, the statement that
\* consumes it, and what the procedure holds only once it has consumed it.
MandatoryFiles == { "multiqc", "matrix", "report", "params" }

Absent(file) ==
  CASE file = "multiqc" -> MultiqcPath \notin fs.output
    [] file = "matrix" -> MatrixPath \notin fs.output
    [] file = "report" -> HtmlReportName \notin fs.pinfo
    [] file = "params" -> ParamsName \notin fs.pinfo

Consumer(file) ==
  CASE file = "multiqc" -> "io_multiqc"
    [] file = "matrix" -> "io_matrix"
    [] file = "report" -> "meta_read_report"
    [] file = "params" -> "meta_params_glob"

NothingStandsIn(file) ==
  CASE file = "multiqc" ->
         \A a \in db.artifacts : a.path # OutputPath(MultiqcPath)
    [] file = "matrix" ->
         \A a \in db.artifacts : a.path # OutputPath(MatrixPath)
    [] file = "report" ->
         /\ content = <<>> /\ nextflow_id = <<>>
         /\ run = NewRun
    [] file = "params" ->
         /\ params_path = Unset /\ params_text = Unset /\ params = {}
         /\ db.params = {} /\ db.run_params = {}

\* C5: when a mandatory file is absent, the procedure never gets past the
\* statement that consumes it: that statement and the later ones, the final
\* run.save() among them, are never executed, the procedure does not finish,
\* an abort lies at that statement or before it, the abort at that statement
\* is the lookup's own exception, and nothing stands in for the file.
C5_MissingMandatoryFileAborts ==
  \A file \in MandatoryFiles :
    Absent(file) =>
      /\ \A i \in 1..Len(log) : StepIndex(log[i].step) < StepIndex(Consumer(file))
      /\ pc # "done"
      /\ ~Terminated => StepIndex(pc) <= StepIndex(Consumer(file))
      /\ \A f \in failure :
           /\ StepIndex(f.at) <= StepIndex(Consumer(file))
           /\ f.at = Consumer(file) => f.exc \in { "FileNotFoundError", "StopIteration" }
      /\ ~Executed("meta_run_save")
      /\ db.runs \subseteq { NewRun }
      /\ NothingStandsIn(file)

C5_Witness ==
  /\ fs.output = OutputPaths
  /\ fs.pinfo = { HtmlReportName, TextReportName, SoftwareName }
  /\ pc = "aborted"
  /\ failure = Some([ at |-> "meta_params_glob", exc |-> "StopIteration" ])
  /\ db.runs = { NewRun }

\* The token of the first 'run id [<token>]' of the text, or the empty string.
FirstRunIdToken(text) ==
  IF ~HasRunId(text) THEN <<>>
  ELSE LET i == CHOOSE i \in 1..Len(text) :
                  /\ \E j \in 1..Len(text) : RunIdOccurrence(text, i, j)
                  /\ \A i2 \in 1..(i - 1) :
                       ~ \E j \in 1..Len(text) : RunIdOccurrence(text, i2, j)
           j == CHOOSE j \in 1..Len(text) : RunIdOccurrence(text, i, j)
       IN SubSeq(text, i + 1, j - 1)

\* C6: once the run id has been extracted, run.reference is the token of the
\* first 'run id [<token>]' of the report text, or the empty string when the
\* text holds none; run.reference_type is "nextflow_id"; the step never
\* raises; and 'run id [a]' gives "a".
C6_ReferenceIsFirstRunIdToken ==
  /\ ~AbortedAt("meta_run_id")
  /\ Executed("meta_run_id") =>
       /\ run.reference = Some(FirstRunIdToken(content))
       /\ nextflow_id = FirstRunIdToken(content)
       /\ run.reference_type = Some("nextflow_id")
       /\ ~HasRunId(content) => run.reference = Some(<<>>)
       /\ content = << RunIdOpen, "a", "]" >> => run.reference = Some(<< "a" >>)

C6_Witness ==
  /\ Executed("meta_run_id")
  /\ content = << RunIdOpen, RunIdOpen, "a", "]" >>
  /\ run.reference = Some(<< RunIdOpen, "a" >>)
  /\ run.reference_type = Some("nextflow_id")

Phase(step) ==
  IF step = "transform_save" THEN 1
  ELSE IF step = "run_create" THEN 2
  ELSE IF step \in { "io_from_dir", "io_save_inputs", "io_set_inputs", "io_multiqc",
                     "io_matrix" } THEN 3
  ELSE 4

\* The statements in the order the program runs them: the loop body once
\* per item.
ProgramOrder ==
  LET k == StepIndex("meta_loop")
  IN SubSeq(Steps, 1, k - 1)
     \o [ i \in 1..Len(LoopItems) |-> "meta_loop" ]
     \o SubSeq(Steps, k + 1, Len(Steps))

\* In ProgramOrder the phases follow one another, and the final run.save()
\* comes once, last, after the statements that set the Run's fields.
OrderOfPhases ==
  /\ \A i \in 1..(Len(ProgramOrder) - 1) :
       Phase(ProgramOrder[i]) <= Phase(ProgramOrder[i + 1])
  /\ ProgramOrder[1] = "transform_save" /\ ProgramOrder[2] = "run_create"
  /\ \A i \in 1..Len(ProgramOrder) :
       ProgramOrder[i] = "meta_run_save" <=> i = Len(ProgramOrder)
  /\ \A s \in { "meta_run_id", "meta_completed_at", "meta_loop" } :
       \E i \in 1..(Len(ProgramOrder) - 1) : ProgramOrder[i] = s

\* C8: the executed statements come in the order Transform persisted, Run
\* created and persisted, the Registrar's statements, the Extractor's
\* statements, none skipped and none repeated; the final run.save() runs at
\* most once, as the last statement, after the assignment of run.reference,
\* the timestamp step and both loop iterations; and the catalog's Run differs
\* from the one saved at creation only after the final run.save().
C8_StatementOrder ==
  /\ OrderOfPhases
  /\ Len(log) <= Len(ProgramOrder)
  /\ \A i \in 1..Len(log) : log[i].step = ProgramOrder[i]
  /\ pc = "done" <=> Len(log) = Len(ProgramOrder)
  /\ ~Terminated => pc = ProgramOrder[Len(log) + 1]
  /\ db.runs \notin { {}, { NewRun } } => pc = "done"

C8_Witness ==
  /\ pc = "done"
  /\ Len(log) = Len(Steps) + 1
  /\ log[Len(log)].step = "meta_run_save"
  /\ \E i \in 1..Len(log) : log[i] = Event("meta_loop", "environment")
  /\ \E i \in 1..Len(log) : log[i] = Event("meta_completed_at", "finished_at")

\* C9: once a file matching 'execution_report_*.html' has been found, the
\* glob 'execution_report*' of the loop matches too: the only warning ever
\* emitted is the one for 'nf_core_*_software*', the report slot is set once
\* the loop has passed it, and no run finishes without a report.
C9_ReportSlotAlwaysSet ==
  /\ \A i \in 1..Len(warnings) :
       warnings[i] = << "No files matching", "nf_core_*_software*" >>
  /\ pc = "meta_loop" /\ loop_i = 1 => Glob(fs.pinfo, "execution_report*") # {}
  /\ loop_i > 1 => run.report # Unset
  /\ pc = "done" => \A r \in db.runs : r.report # Unset

C9_Witness ==
  /\ pc = "done"
  /\ fs.pinfo = { HtmlReportName, ParamsName }
  /\ Len(warnings) = 1
  /\ \E r \in db.runs : \E a \in r.report : a.path = InfoPath(HtmlReportName)

\* What the catalog and the Run hold after the abort on a missing params file.
AbortedOnMissingParams ==
  AbortedAt("meta_params_glob") =>
    /\ ScrnaseqTransform \in db.transforms
    /\ "nextflow" \in db.ulabels /\ "nextflow" \in db.transform_ulabels
    /\ { a.path : a \in db.run_inputs } = { InputPath(n) : n \in fs.inputs }
    /\ db.run_inputs \subseteq db.artifacts
    /\ { MultiqcArtifact, MatrixArtifact } \subseteq db.artifacts
    /\ run.report # Unset
    /\ SoftwareName \in fs.pinfo => run.environment # Unset
    /\ run.report \cup run.environment \subseteq db.artifacts
    /\ run.reference # Unset
    /\ run.reference_type = Some("nextflow_id")
    /\ db.runs = { NewRun }

NoRollbackStep ==
  /\ db.transforms \subseteq db'.transforms
  /\ db.transform_ulabels \subseteq db'.transform_ulabels
  /\ db.ulabels \subseteq db'.ulabels
  /\ db.artifacts \subseteq db'.artifacts
  /\ db.params \subseteq db'.params
  /\ db.run_params \subseteq db'.run_params
  /\ db.run_inputs \subseteq db'.run_inputs
  /\ db.runs # {} => db'.runs # {}
  /\ pc' = "aborted" => db' = db /\ run' = run
  /\ pc' # "done" => db'.runs \subseteq { NewRun }
  /\ AbortedOnMissingParams'

\* C10: nothing persisted is ever taken back, an abort included: every step
\* leaves each persisted record in the catalog, the failing step changes
\* neither the catalog nor the Run; after the abort on a missing params file
\* the report and environment Artifacts are persisted while the Run's
\* reference, reference_type, finished_at, report and environment are set only
\* in memory: the catalog's Run is still the one saved at creation.
C10_NoRollback == [][NoRollbackStep]_vars

C10_Witness ==
  /\ AbortedAt("meta_params_glob")
  /\ run.environment # Unset /\ run.report # Unset /\ run.finished_at # Unset
  /\ run.reference = Some(<< "a" >>)
  /\ fs.inputs # {}
  /\ db.runs = { NewRun }

====
